---- MODULE Spec2Model ----
(***************************************************************************)
(* Swiss energy data importer (ch-energy/bin/import_data.py and its        *)
(* predecessors merge.py / import_production_data.py).                     *)
(*                                                                         *)
(* Text is modelled as a sequence of tokens.  A token is one character     *)
(* that the code treats specially (tab, newline, space, "|", ".", a        *)
(* digit) or an opaque run of other characters ("Zurich", "xtf_id",        *)
(* "None").  Python values are records [t, n, d, s]: a str carries its     *)
(* text s, an int its value n, a float the decimal n / 10^d, None nothing. *)
(***************************************************************************)
EXTENDS Integers, Sequences, FiniteSets, TLC

\* ------------------------------------------------------------------ text

TAB == "\t"
NL == "\n"
SP == " "
PIPE == "|"
DOT == "."

Digits == {"0", "1", "2", "3", "4", "5", "6", "7", "8", "9"}

DigitVal(c) ==
    CASE c = "0" -> 0 [] c = "1" -> 1 [] c = "2" -> 2 [] c = "3" -> 3
      [] c = "4" -> 4 [] c = "5" -> 5 [] c = "6" -> 6 [] c = "7" -> 7
      [] c = "8" -> 8 [] c = "9" -> 9

DigitChar(n) ==
    CASE n = 0 -> "0" [] n = 1 -> "1" [] n = 2 -> "2" [] n = 3 -> "3"
      [] n = 4 -> "4" [] n = 5 -> "5" [] n = 6 -> "6" [] n = 7 -> "7"
      [] n = 8 -> "8" [] n = 9 -> "9"

\* str.isspace for one character
IsSpace(c) == c \in {SP, TAB, NL}

RECURSIVE LStrip(_)
LStrip(s) ==
    IF s # <<>> /\ IsSpace(Head(s)) THEN LStrip(Tail(s)) ELSE s

RECURSIVE RStrip(_)
RStrip(s) ==
    IF s # <<>> /\ IsSpace(s[Len(s)]) THEN RStrip(SubSeq(s, 1, Len(s) - 1)) ELSE s

\* str.strip()
PyStrip(s) == RStrip(LStrip(s))

\* str.replace(a, b) for single characters a, b
PyReplace(s, a, b) == [i \in 1..Len(s) |-> IF s[i] = a THEN b ELSE s[i]]

\* str.replace(a, '')
PyRemove(s, a) == SelectSeq(s, LAMBDA c : c # a)

\* str.isdigit()
PyIsDigit(s) == s # <<>> /\ \A i \in 1..Len(s) : s[i] \in Digits

\* a in s, for a one-token needle
PyContains(s, a) == \E i \in 1..Len(s) : s[i] = a

CountOf(s, a) == Cardinality({i \in 1..Len(s) : s[i] = a})

\* the pieces of a text from the pieces a of its first part and b of the rest:
\* the last piece of a goes on in the first piece of b
SplitJoin(a, b) == SubSeq(a, 1, Len(a) - 1) \o <<a[Len(a)] \o b[1]>> \o Tail(b)

\* str.split(sep) for a single character sep, the text taken by halves
RECURSIVE PySplit(_, _)
PySplit(s, sep) ==
    IF s = <<sep>> THEN <<<<>>, <<>>>>
    ELSE IF Len(s) <= 1 THEN <<s>>
    ELSE SplitJoin(PySplit(SubSeq(s, 1, Len(s) \div 2), sep),
                   PySplit(SubSeq(s, Len(s) \div 2 + 1, Len(s)), sep))

\* sep.join(parts)
RECURSIVE PyJoin(_, _)
PyJoin(parts, sep) ==
    IF parts = <<>> THEN <<>>
    ELSE IF Len(parts) = 1 THEN parts[1]
    ELSE parts[1] \o <<sep>> \o PyJoin(Tail(parts), sep)

\* value of a string of decimal digits (0 for the empty string)
RECURSIVE DigitsVal(_)
DigitsVal(s) ==
    IF s = <<>> THEN 0
    ELSE 10 * DigitsVal(SubSeq(s, 1, Len(s) - 1)) + DigitVal(s[Len(s)])

\* decimal digits of a natural number
RECURSIVE NatStr(_)
NatStr(n) ==
    IF n < 10 THEN <<DigitChar(n)>> ELSE NatStr(n \div 10) \o <<DigitChar(n % 10)>>

RECURSIVE Pow10(_)
Pow10(d) == IF d = 0 THEN 1 ELSE 10 * Pow10(d - 1)

\* ---------------------------------------------------------------- values

Mk(t, n, d, s) == [t |-> t, n |-> n, d |-> d, s |-> s]

None == Mk("none", 0, 0, <<>>)
PyStr(s) == Mk("str", 0, 0, s)
PyInt(n) == Mk("int", n, 0, <<>>)

\* a float n / 10^d in lowest terms of ten
RECURSIVE PyFloat(_, _)
PyFloat(n, d) ==
    IF d > 0 /\ n % 10 = 0 THEN PyFloat(n \div 10, d - 1) ELSE Mk("float", n, d, <<>>)

\* isinstance(v, (int, float))
IsNumber(v) == v.t \in {"int", "float"}

\* bool(v)
Truthy(v) ==
    CASE v.t = "str" -> v.s # <<>>
      [] v.t = "int" -> v.n # 0
      [] v.t = "float" -> v.n # 0
      [] OTHER -> FALSE

\* str(float): at least one fractional digit, fraction zero-padded to d places
RECURSIVE PadFrac(_, _)
PadFrac(s, d) == IF Len(s) < d THEN PadFrac(<<"0">> \o s, d) ELSE s

FloatStr(v) ==
    IF v.d = 0 THEN NatStr(v.n) \o <<DOT, "0">>
    ELSE NatStr(v.n \div Pow10(v.d)) \o <<DOT>> \o PadFrac(NatStr(v.n % Pow10(v.d)), v.d)

\* str(v)
ToStr(v) ==
    CASE v.t = "str" -> v.s
      [] v.t = "int" -> NatStr(v.n)
      [] v.t = "float" -> FloatStr(v)
      [] OTHER -> <<"None">>

\* float(s): surrounding whitespace ignored; digits with at most one point and
\* at least one digit.  A failed parse is ValueError.
ParseFloat(s) ==
    LET u == PyStrip(s)
        digs == PyRemove(u, DOT)
    IN IF PyIsDigit(digs) /\ CountOf(u, DOT) <= 1
       THEN LET k == IF PyContains(u, DOT)
                     THEN CHOOSE i \in 1..Len(u) : u[i] = DOT
                     ELSE Len(u) + 1
            IN [raised |-> FALSE, v |-> PyFloat(DigitsVal(digs), Len(u) + 1 - k - (IF k <= Len(u) THEN 1 ELSE 0))]
       ELSE [raised |-> TRUE, v |-> None]

\* int(s) for a string that passed isdigit()
ParseInt(s) == [raised |-> FALSE, v |-> PyInt(DigitsVal(s))]

\* one-word text
W(x) == <<x>>

\* ------------------------------------------------------------ bounds

\* rows read from the facilities CSV in one run
MaxRows == 3
\* runs of main() against the same cache file
MaxRuns == 2

\* self.num_requests % 100
SaveEvery == 100

\* ------------------------------------------------------------- state

VARIABLES
    cache_file,   \* the geocode cache file: [exists, text]
    cache,        \* Geocoder.cache, an insertion-ordered dict: <<[k, lat, lon], ...>>
    num_requests, \* Geocoder.num_requests
    net_log,      \* what the run did on the network: requests sent and sleeps taken
    pc,           \* where main() is: "start", "rows", "done", "aborted"
    error,        \* the exception that ended the run, "" if none
    runs,         \* runs of main() started so far
    i,            \* enumerate(csvreader): index of the next row
    row,          \* the row last read from csvreader
    keys,         \* import_facilities.keys: [set, cols]
    facilities,   \* import_facilities.facilities
    warnings,     \* row indices passed to logger.warning by the per-row handler
    facilities_with_coords,
    geocoded_facilities,
    cell,         \* a raw CSV cell handed to the per-cell translation
    cell_out,     \* what the translation made of it: [done, raised, v]
    writer,       \* the writer called: "save_compressed_json" or "save_json"
    wpc,          \* where the writer is
    data,         \* the JSON text it was given to write
    dest,         \* the destination file: [content, mode]
    dest0,        \* the destination file as it was when the writer was called
    temp,         \* the temp file made by mkstemp: [content, mode]
    temp_path,    \* the writer's temp_path: TRUE when it names the temp file, FALSE for None
    failed_at,    \* the step that raised, "" if none
    calls,        \* calls of the writer so far
    csv_content,  \* the CSV text handed to a time-series importer: [header, rows]
    series,       \* the importer called: "production" or "trade"
    series_out,   \* what it did: [done, raised, error, result, processed_rows]
    written,      \* entries of the cache written by the save() that is running
    resume,       \* where control goes when the running save() returns
    persisted     \* the cache as it was at load or at the last save() that returned

geo_vars == <<cache_file, cache, num_requests, net_log>>
run_vars == <<pc, error, runs, i, row, keys, facilities, warnings, facilities_with_coords, geocoded_facilities>>
run_vars_but_pc == <<error, runs, i, row, keys, facilities, warnings, facilities_with_coords, geocoded_facilities>>
cell_vars == <<cell, cell_out>>
writer_vars == <<writer, wpc, data, dest, dest0, temp, temp_path, failed_at, calls>>
series_vars == <<csv_content, series, series_out>>
save_vars == <<written, resume>>

\* ---------------------------------------------------------- Geocoder

Entry(k, lat, lon) == [k |-> k, lat |-> lat, lon |-> lon]

\* key in self.cache
HasKey(c, k) == \E j \in 1..Len(c) : c[j].k = k

\* self.cache[key]
Get(c, k) == LET j == CHOOSE j \in 1..Len(c) : c[j].k = k IN <<c[j].lat, c[j].lon>>

\* self.cache[key] = (lat, lon): a new key is appended, a known key keeps its place
DictSet(c, k, lat, lon) ==
    IF HasKey(c, k)
    THEN [j \in 1..Len(c) |-> IF c[j].k = k THEN Entry(k, lat, lon) ELSE c[j]]
    ELSE Append(c, Entry(k, lat, lon))

\* the dict as a mapping, order forgotten
AsMap(c) == {c[j] : j \in 1..Len(c)}

NoFile == [exists |-> FALSE, text |-> <<>>]
File(text) == [exists |-> TRUE, text |-> text]

\* the lat/lon field of a cache line
CoordStr(v) == IF v # None THEN ToStr(v) ELSE <<"None">>

\* the line Geocoder.save writes for one entry
SaveLine(e) == e.k \o <<TAB>> \o CoordStr(e.lat) \o <<TAB>> \o CoordStr(e.lon) \o <<NL>>

\* the text Geocoder.save writes: the lines of the entries in the order of the
\* dict, the entries taken by halves
RECURSIVE SaveText(_)
SaveText(c) ==
    IF c = <<>> THEN <<>>
    ELSE IF Len(c) = 1 THEN SaveLine(c[1])
    ELSE SaveText(SubSeq(c, 1, Len(c) \div 2)) \o SaveText(SubSeq(c, Len(c) \div 2 + 1, Len(c)))

\* a save that opens the file and writes no entry
SaveNothing(c) == File(<<>>)

\* Geocoder.save
Save(c) == File(SaveText(c))

\* a field of a cache line as load parses it
ParseCoord(s) == IF s # <<"None">> THEN ParseFloat(s) ELSE [raised |-> FALSE, v |-> None]

\* the body of the loop of Geocoder.load for one line
LoadLine(raw, c) ==
    LET line == PyStrip(raw)
        parts == PySplit(line, TAB)
    IN IF line = <<>> THEN [raised |-> FALSE, cache |-> c]
       ELSE IF Len(parts) # 3 THEN [raised |-> TRUE, cache |-> c]
       ELSE LET lat == ParseCoord(parts[2])
                lon == ParseCoord(parts[3])
            IN IF lat.raised \/ lon.raised THEN [raised |-> TRUE, cache |-> c]
               ELSE [raised |-> FALSE, cache |-> DictSet(c, parts[1], lat.v, lon.v)]

RECURSIVE LoadLines(_, _)

\* the rest of the loop after its first part: nothing when that part raised
LoadRest(first, lines) == IF first.raised THEN first ELSE LoadLines(lines, first.cache)

\* the loop of Geocoder.load over the lines of the file, the lines taken by
\* halves: the second half is read only when the first did not raise
LoadLines(lines, c) ==
    IF lines = <<>> THEN [raised |-> FALSE, cache |-> c]
    ELSE IF Len(lines) = 1 THEN LoadLine(lines[1], c)
    ELSE LoadRest(LoadLines(SubSeq(lines, 1, Len(lines) \div 2), c),
                  SubSeq(lines, Len(lines) \div 2 + 1, Len(lines)))

\* Geocoder.load
Load(f) ==
    IF ~f.exists THEN [raised |-> FALSE, cache |-> <<>>]
    ELSE LoadLines(PySplit(f.text, NL), <<>>)

\* cache_key of Geocoder.geocode
CacheKeyPart(v) == PyReplace(PyReplace(PyStrip(ToStr(v)), TAB, SP), PIPE, SP)

CacheKey(parts) ==
    PyJoin(<<CacheKeyPart(parts[W("Address")]), CacheKeyPart(parts[W("PostCode")]),
             CacheKeyPart(parts[W("Municipality")])>>, PIPE)

\* what the geocoding service does with one request
Fail == [kind |-> "fail", lat |-> None, lon |-> None]
Empty == [kind |-> "empty", lat |-> None, lon |-> None]
Found(lat, lon) == [kind |-> "found", lat |-> lat, lon |-> lon]

Req(k, n, r) == [e |-> "req", k |-> k, row |-> n, r |-> r]
Sleep(k, n) == [e |-> "sleep", k |-> k, row |-> n, r |-> ""]

\* Geocoder.geocode(address_parts) while row n is processed, the service
\* answering `answer` if it is asked
Geocode(c, nreq, f, parts, n, answer) ==
    LET cache_key == CacheKey(parts)
    IN IF HasKey(c, cache_key)
       THEN [raised |-> FALSE, lat |-> Get(c, cache_key)[1], lon |-> Get(c, cache_key)[2],
             cache |-> c, num_requests |-> nreq, file |-> f, log |-> <<>>]
       ELSE IF answer.kind = "fail"
       THEN [raised |-> TRUE, lat |-> None, lon |-> None,
             cache |-> c, num_requests |-> nreq, file |-> f,
             log |-> <<Req(cache_key, n, "fail")>>]
       ELSE LET c2 == DictSet(c, cache_key, answer.lat, answer.lon)
            IN [raised |-> FALSE, lat |-> answer.lat, lon |-> answer.lon,
                cache |-> c2, num_requests |-> nreq + 1,
                file |-> IF (nreq + 1) % SaveEvery = 0 THEN Save(c2) ELSE f,
                log |-> <<Req(cache_key, n, answer.kind), Sleep(cache_key, n)>>]

\* ------------------------------------------------- import_facilities

\* load_catalogue_translations(extract_dir): code -> label
Translations == {<<W("subcat_2"), W("Photovoltaic")>>, <<W("subcat_4"), W("Wind")>>}

InTranslations(value) == \E t \in Translations : t[1] = value
Translated(value) == (CHOOSE t \in Translations : t[1] = value)[2]

\* float(value) if '.' in value else int(value), for a value with
\* value.replace('.', '').isdigit()
Coerce(value) == IF PyContains(value, DOT) THEN ParseFloat(value) ELSE ParseInt(value)

\* the translation of one cell: [raised, v]
TranslateCell(value) ==
    IF InTranslations(value) THEN [raised |-> FALSE, v |-> PyStr(Translated(value))]
    ELSE IF PyIsDigit(PyRemove(value, DOT)) THEN Coerce(value)
    ELSE [raised |-> FALSE, v |-> PyStr(value)]

\* the loop over the cells of a row: [raised, values]
TranslateRow(r) ==
    LET cells == [j \in 1..Len(r) |-> TranslateCell(r[j])]
    IN [raised |-> \E j \in 1..Len(r) : cells[j].raised,
        values |-> [j \in 1..Len(r) |-> cells[j].v]]

REQUIRED_FIELDS ==
    <<W("Municipality"), W("Canton"), W("BeginningOfOperation"), W("TotalPower"),
      W("SubCategory"), W("lat"), W("lon")>>

AddressFields == <<W("Address"), W("PostCode"), W("Municipality")>>

Min(a, b) == IF a < b THEN a ELSE b

\* dict(zip(ks, vs)): pairs up to the shorter length, a repeated key keeps its
\* last value
ZipDict(ks, vs) ==
    LET n == Min(Len(ks), Len(vs))
    IN [k \in {ks[j] : j \in 1..n} |->
           vs[CHOOSE j \in 1..n : ks[j] = k /\ \A m \in (j + 1)..n : ks[m] # k]]

\* 'xtf_id' in row[0]
IsHeader(r) == PyContains(r[1], "xtf_id")

NoKeys == [set |-> FALSE, cols |-> <<>>]

\* len(values) >= 2 and both of the last two values are numbers
HasProjected(values) ==
    Len(values) >= 2 /\ IsNumber(values[Len(values) - 1]) /\ IsNumber(values[Len(values)])

\* the number as a float
AsFloat(v) == IF v.t = "int" THEN PyFloat(v.n, 0) ELSE v

\* transformer.transform(x, y) from EPSG:2056 to EPSG:4326: a pair of floats,
\* latitude from the northing and longitude from the easting
Transform(x, y) == <<AsFloat(y), AsFloat(x)>>

\* address_parts: the address fields that are in the row and truthy
AddressParts(fields) ==
    [f \in {g \in DOMAIN fields : (\E j \in 1..3 : AddressFields[j] = g) /\ Truthy(fields[g])}
        |-> fields[f]]

\* the test before geocoder.geocode: "geocode", "none" for the else branch,
\* "KeyError" when address_parts holds some but not all of the three fields
AddressTest(address_parts) ==
    IF DOMAIN address_parts = {} THEN "none"
    ELSE IF \A j \in 1..3 : AddressFields[j] \in DOMAIN address_parts THEN "geocode"
    ELSE "KeyError"

\* a projection that keeps every column of the row
ProjectAll(all_fields) == all_fields

\* {field: all_fields[field] for field in REQUIRED_FIELDS if field in all_fields}
Project(all_fields) ==
    [f \in {g \in DOMAIN all_fields : \E j \in 1..Len(REQUIRED_FIELDS) : REQUIRED_FIELDS[j] = g}
        |-> all_fields[f]]

\* The body of the try block for one data row, the service answering `answer`
\* if geocode asks it.  raised: an exception reached the except clause.
ProcessRow(r, n, ks, c, nreq, f, answer) ==
    LET tr == TranslateRow(r)
        values == tr.values
        same == [raised |-> TRUE, facility |-> <<>>, coords |-> 0, geocoded |-> 0,
                 cache |-> c, num_requests |-> nreq, file |-> f, log |-> <<>>]
    IN IF tr.raised THEN same
       ELSE IF HasProjected(values)
       THEN LET ll == Transform(values[Len(values) - 1], values[Len(values)])
            IN [same EXCEPT !.raised = FALSE, !.coords = 1,
                            !.facility = <<Project(ZipDict(ks, values \o ll))>>]
       ELSE LET fields == ZipDict(SubSeq(ks, 1, Len(ks) - 2), values)
                address_parts == AddressParts(fields)
                test == AddressTest(address_parts)
            IN IF test = "KeyError" THEN same
               ELSE IF test = "none"
               THEN [same EXCEPT !.raised = FALSE,
                                 !.facility = <<Project(ZipDict(ks, values \o <<None, None>>))>>]
               ELSE LET g == Geocode(c, nreq, f, address_parts, n, answer)
                        hit == g.lat # None /\ g.lon # None
                    IN [raised |-> g.raised,
                        facility |-> IF g.raised THEN <<>>
                                     ELSE <<Project(ZipDict(ks, values \o <<g.lat, g.lon>>))>>,
                        coords |-> IF ~g.raised /\ hit THEN 1 ELSE 0,
                        geocoded |-> IF ~g.raised /\ hit THEN 1 ELSE 0,
                        cache |-> g.cache, num_requests |-> g.num_requests,
                        file |-> g.file, log |-> g.log]

\* --------------------------------------------------------- the inputs

\* the header row of ElectricityProductionPlant.csv (a selection of its columns)
Header ==
    <<W("xtf_id"), W("Address"), W("PostCode"), W("Municipality"), W("TotalPower"),
      W("SubCategory"), W("_x"), W("_y")>>

DataRow(address, postcode, municipality, power, x, y) ==
    <<W("p1"), address, postcode, municipality, power, W("subcat_2"), x, y>>

\* the rows csvreader may yield
RowPool ==
    { Header,
      <<>>,
      DataRow(W("Main"), <<"8", "0">>, W("Bern"), <<"1", "2", ".", "5">>, <<"2", "6">>, <<"1", "2">>),
      DataRow(W("Main"), <<"8", "0">>, W("Bern"), <<"7">>, <<>>, <<>>),
      DataRow(<<PIPE, "Main">>, <<"8", "0">>, W("Bern"), <<"7">>, <<>>, <<>>),
      DataRow(<<"Main", NL, "b">>, <<"8", "0">>, W("Bern"), <<"7">>, <<>>, <<>>),
      DataRow(<<>>, <<"8", "0">>, W("Bern"), <<"7">>, <<>>, <<>>),
      DataRow(W("Main"), <<"0">>, W("Bern"), <<"7">>, <<>>, <<>>),
      DataRow(<<>>, <<>>, <<>>, <<"7">>, <<>>, <<>>),
      DataRow(W("Main"), <<"8", "0">>, W("Bern"), <<"1", ".", "2", ".", "3">>, <<>>, <<>>),
      <<W("p1"), W("Main"), <<"8", "0">>, W("Bern"), <<"7">>, W("subcat_2"), <<>>>>,
      <<W("p1"), <<>>, <<>>, <<>>, <<"7">>, W("subcat_2"), <<>>, <<>>, W("extra")>> }

\* what the geocoding service may answer
Answers == {Fail, Empty, Found(PyFloat(4625, 2), PyFloat(75, 1))}

CacheLine(k, lat, lon) == k \o <<TAB>> \o lat \o <<TAB>> \o lon \o <<NL>>

MainKey == <<"Main", PIPE, "8", "0", PIPE, "Bern">>

\* the cache file a run may find
InitCacheFiles ==
    { NoFile,
      File(CacheLine(MainKey, <<"4", "7", ".", "5">>, <<"8", ".", "5">>)),
      File(CacheLine(MainKey, <<"None">>, <<"None">>)),
      File(CacheLine(MainKey, <<"None">>, <<"8", ".", "5">>)),
      File(MainKey \o <<TAB, "4", "7", ".", "5", NL>>),
      File(MainKey \o <<TAB, "4", "7", ".", "5", TAB, "8", ".", "5", TAB, NL>>),
      File(CacheLine(MainKey, <<"4", "7", ".", "5">>, <<"8", ".", "5">>)
           \o <<"Side", PIPE, "8", "0", PIPE, "Bern", TAB, "None", NL>>) }

\* whether processing row r sends a request to the geocoding service
AsksService(r, ks, c) == ProcessRow(r, 0, ks, c, 0, NoFile, Fail).log # <<>>

\* ------------------------------------------------------------ actions

vars == <<cache_file, cache, num_requests, net_log, pc, error, runs, i, row, keys,
          facilities, warnings, facilities_with_coords, geocoded_facilities,
          cell, cell_out, writer, wpc, data, dest, dest0, temp, temp_path, failed_at, calls,
          csv_content, series, series_out, written, resume, persisted>>

Absent == [content |-> "absent", mode |-> ""]

\* no cell is being translated
CellIdle ==
    /\ cell = <<>>
    /\ cell_out = [done |-> TRUE, raised |-> FALSE, v |-> None]

\* no writer is running
WriterIdle ==
    /\ writer = ""
    /\ wpc = "idle"
    /\ data = ""
    /\ dest = Absent
    /\ dest0 = Absent
    /\ temp = Absent
    /\ temp_path = FALSE
    /\ failed_at = ""
    /\ calls = 0

\* no time-series importer is running
SeriesIdle ==
    /\ csv_content = [header |-> <<>>, rows |-> <<>>]
    /\ series = ""
    /\ series_out = [done |-> TRUE, raised |-> FALSE, error |-> "", result |-> <<>>,
                     processed_rows |-> 0]

\* main() has not started
PipelineIdle ==
    /\ written = 0
    /\ resume = ""
    /\ persisted = <<>>
    /\ cache = <<>>
    /\ num_requests = 0
    /\ net_log = <<>>
    /\ pc = "start"
    /\ error = ""
    /\ runs = 0
    /\ i = 0
    /\ row = <<>>
    /\ keys = NoKeys
    /\ facilities = <<>>
    /\ warnings = <<>>
    /\ facilities_with_coords = 0
    /\ geocoded_facilities = 0

Init ==
    /\ cache_file \in InitCacheFiles
    /\ PipelineIdle
    /\ CellIdle
    /\ WriterIdle
    /\ SeriesIdle

\* main() up to the first row: Geocoder(args.geocode_cache) loads the cache,
\* import_facilities sets up its locals
StartRun ==
    /\ pc \in {"start", "done", "aborted"}
    /\ runs < MaxRuns
    /\ runs' = runs + 1
    /\ LET l == Load(cache_file)
       IN /\ cache' = l.cache
          /\ pc' = IF l.raised THEN "aborted" ELSE "rows"
          /\ error' = IF l.raised THEN "ValueError" ELSE ""
    /\ num_requests' = 0
    /\ net_log' = <<>>
    /\ i' = 0
    /\ row' = <<>>
    /\ keys' = NoKeys
    /\ facilities' = <<>>
    /\ warnings' = <<>>
    /\ facilities_with_coords' = 0
    /\ geocoded_facilities' = 0
    /\ persisted' = Load(cache_file).cache
    /\ UNCHANGED <<cache_file, cell_vars, writer_vars, series_vars, save_vars>>

\* one iteration of `for i, row in enumerate(csvreader)`
ReadRow ==
    /\ pc = "rows"
    /\ i < MaxRows
    /\ \E r \in RowPool :
       \E answer \in IF r # <<>> /\ ~IsHeader(r) /\ keys.set /\ AsksService(r, keys.cols, cache)
                     THEN Answers ELSE {Empty} :
        /\ row' = r
        /\ IF r = <<>>
           THEN /\ pc' = "aborted"
                /\ error' = "IndexError"
                /\ UNCHANGED <<geo_vars, i, keys, facilities, warnings,
                               facilities_with_coords, geocoded_facilities>>
           ELSE IF IsHeader(r)
           THEN /\ keys' = [set |-> TRUE, cols |-> r \o <<W("lat"), W("lon")>>]
                /\ i' = i + 1
                /\ UNCHANGED <<geo_vars, pc, error, facilities, warnings,
                               facilities_with_coords, geocoded_facilities>>
           ELSE IF ~keys.set
           THEN /\ pc' = "aborted"
                /\ error' = "No keys found in facilities data"
                /\ UNCHANGED <<geo_vars, i, keys, facilities, warnings,
                               facilities_with_coords, geocoded_facilities>>
           ELSE \E p \in {ProcessRow(r, i, keys.cols, cache, num_requests, cache_file, answer)} :
                   /\ cache' = p.cache
                   /\ num_requests' = p.num_requests
                   /\ cache_file' = p.file
                   /\ net_log' = net_log \o p.log
                   /\ facilities' = facilities \o p.facility
                   /\ warnings' = IF p.raised THEN Append(warnings, i) ELSE warnings
                   /\ facilities_with_coords' = facilities_with_coords + p.coords
                   /\ geocoded_facilities' = geocoded_facilities + p.geocoded
                   /\ i' = i + 1
                   /\ UNCHANGED <<pc, error, keys>>
    /\ persisted' = IF cache_file' # cache_file THEN cache' ELSE persisted
    /\ UNCHANGED <<runs, cell_vars, writer_vars, series_vars, save_vars>>

\* csvreader is exhausted: geocoder.save(), and import_facilities returns
EndOfFile ==
    /\ pc = "rows"
    /\ cache_file' = Save(cache)
    /\ pc' = "done"
    /\ persisted' = cache
    /\ UNCHANGED <<cache, num_requests, net_log, error, runs, i, row, keys, facilities,
                   warnings, facilities_with_coords, geocoded_facilities, cell_vars, writer_vars,
                   series_vars, save_vars>>

Next == StartRun \/ ReadRow \/ EndOfFile

Spec == Init /\ [][Next]_vars

\* ------------------------------------------- the per-cell translation

\* longest raw cell tried
MaxCellLen == 5

CellAlphabet == {"1", "2", "3", DOT, "kW", "subcat_2"}

\* the raw cells tried: every text over CellAlphabet up to MaxCellLen tokens
Cells == UNION {[1..n -> CellAlphabet] : n \in 0..MaxCellLen}

InitCell ==
    /\ cache_file = NoFile
    /\ PipelineIdle
    /\ WriterIdle
    /\ SeriesIdle
    /\ cell \in Cells
    /\ cell_out = [done |-> FALSE, raised |-> FALSE, v |-> None]

\* the body of `for value in row` for one cell
TranslateOne ==
    /\ ~cell_out.done
    /\ cell_out' = [done |-> TRUE, raised |-> TranslateCell(cell).raised, v |-> TranslateCell(cell).v]
    /\ UNCHANGED <<cell, geo_vars, run_vars, writer_vars, series_vars, save_vars, persisted>>

NextCell == TranslateOne

SpecCell == InitCell /\ [][NextCell]_vars

\* ------------------------------------------------ the atomic writers

\* calls of a writer on the same destination
MaxCalls == 2

Writers == {"save_compressed_json", "save_json"}

\* the JSON text of what the caller hands over
Datasets == {"[]", "[{...}]"}

FileOf(content, mode) == [content |-> content, mode |-> mode]

InitWriter ==
    /\ cache_file = NoFile
    /\ PipelineIdle
    /\ CellIdle
    /\ WriterIdle
    /\ SeriesIdle

\* the writer is called: json.dumps(data), temp_path = None
Call ==
    /\ wpc \in {"idle", "returned", "raised"}
    /\ calls < MaxCalls
    /\ calls' = calls + 1
    /\ writer' \in Writers
    /\ data' \in Datasets
    /\ dest0' = dest
    /\ temp' = Absent
    /\ temp_path' = FALSE
    /\ failed_at' = ""
    /\ wpc' = "try"
    /\ UNCHANGED <<dest, cell_vars, geo_vars, run_vars,
                   series_vars, save_vars, persisted>>

\* a step of the try block raised: control goes to the except clause
Raise(step) ==
    /\ failed_at' = step
    /\ wpc' = "except"

\* fd, temp_path = tempfile.mkstemp(dir=output_dir, ...): a new, empty file,
\* readable and writable by its owner only; on failure no file and no name
Mkstemp ==
    /\ wpc = "try"
    /\ \/ /\ temp' = FileOf("", "0600")
          /\ temp_path' = TRUE
          /\ wpc' = "created"
          /\ UNCHANGED failed_at
       \/ /\ Raise("mkstemp")
          /\ UNCHANGED <<temp, temp_path>>
    /\ UNCHANGED <<writer, data, dest, dest0, calls, cell_vars, geo_vars, run_vars,
                   series_vars, save_vars, persisted>>

\* os.close(fd)
CloseFd ==
    /\ wpc = "created"
    /\ \/ /\ wpc' = "closed"
          /\ UNCHANGED failed_at
       \/ Raise("close")
    /\ UNCHANGED <<writer, data, dest, dest0, temp, temp_path, calls, cell_vars, geo_vars, run_vars,
                   series_vars, save_vars, persisted>>

\* with gzip.open(temp_path, 'wt') as gz_file: gz_file.write(json_str).
\* A failure leaves what was written so far in the temp file.
WriteGz ==
    /\ wpc = "closed"
    /\ \/ /\ temp' = FileOf(data, temp.mode)
          /\ wpc' = "written"
          /\ UNCHANGED failed_at
       \/ /\ temp' \in {FileOf("", temp.mode), FileOf("partial", temp.mode)}
          /\ Raise("write")
    /\ UNCHANGED <<writer, data, dest, dest0, temp_path, calls, cell_vars, geo_vars, run_vars,
                   series_vars, save_vars, persisted>>

\* os.chmod(temp_path, 0o644), in save_compressed_json only
Chmod ==
    /\ wpc = "written"
    /\ writer = "save_compressed_json"
    /\ \/ /\ temp' = FileOf(temp.content, "0644")
          /\ wpc' = "chmodded"
          /\ UNCHANGED failed_at
       \/ /\ Raise("chmod")
          /\ UNCHANGED temp
    /\ UNCHANGED <<writer, data, dest, dest0, temp_path, calls, cell_vars, geo_vars, run_vars,
                   series_vars, save_vars, persisted>>

\* the file the destination is after os.rename(temp_path, output_file)
Renamed(t) == t

\* shutil.move(temp_path, output_file); temp_path = None.  The rename replaces
\* the destination in one step.  When the rename is refused shutil.move copies
\* instead, and a failure then may leave the destination partly written.
Move ==
    /\ wpc = IF writer = "save_compressed_json" THEN "chmodded" ELSE "written"
    /\ \/ /\ dest' = Renamed(temp)
          /\ temp' = Absent
          /\ temp_path' = FALSE
          /\ wpc' = "moved"
          /\ UNCHANGED failed_at
       \/ /\ dest' \in {dest, FileOf("partial", temp.mode)}
          /\ Raise("move")
          /\ UNCHANGED <<temp, temp_path>>
    /\ UNCHANGED <<writer, data, dest0, calls, cell_vars, geo_vars, run_vars,
                   series_vars, save_vars, persisted>>

\* file_size = os.path.getsize(output_file); logger.info(...); return
GetSize ==
    /\ wpc = "moved"
    /\ \/ /\ wpc' = "returned"
          /\ UNCHANGED failed_at
       \/ Raise("getsize")
    /\ UNCHANGED <<writer, data, dest, dest0, temp, temp_path, calls, cell_vars, geo_vars, run_vars,
                   series_vars, save_vars, persisted>>

\* a handler that raises again without removing the temp file
CleanupNever(tp, t) == t

\* the temp file after `if temp_path and os.path.exists(temp_path): os.unlink(temp_path)`
Cleanup(tp, t) == IF tp /\ t # Absent THEN Absent ELSE t

\* except Exception as e: clean up and raise e
Except ==
    /\ wpc = "except"
    /\ temp' = Cleanup(temp_path, temp)
    /\ wpc' = "raised"
    /\ UNCHANGED <<writer, data, dest, dest0, temp_path, failed_at, calls, cell_vars, geo_vars, run_vars,
                   series_vars, save_vars, persisted>>

NextWriter == Call \/ Mkstemp \/ CloseFd \/ WriteGz \/ Chmod \/ Move \/ GetSize \/ Except

SpecWriter == InitWriter /\ [][NextWriter]_vars

\* ------------------------------------------- the time-series importers

\* PRODUCTION_SOURCE_INDEX: position of an energy source in the output array
PRODUCTION_SOURCE_INDEX ==
    {<<W("Speicherkraft"), 0>>, <<W("Flusskraft"), 1>>, <<W("Kernkraft"), 2>>,
     <<W("Photovoltaik"), 3>>, <<W("Thermische"), 4>>, <<W("Wind"), 5>>}

\* TRADE_FLOW_INDEX.items(): the fields in the order of the dict, with their positions
TRADE_FLOW_INDEX ==
    <<<<W("AT_CH_MWh"), 0>>, <<W("DE_CH_MWh"), 1>>, <<W("FR_CH_MWh"), 2>>,
      <<W("IT_CH_MWh"), 3>>, <<W("CH_AT_MWh"), 4>>, <<W("CH_DE_MWh"), 5>>,
      <<W("CH_FR_MWh"), 6>>, <<W("CH_IT_MWh"), 7>>>>

\* energy_source in PRODUCTION_SOURCE_INDEX, for a value of the row (None is in no dict)
KnownSource(v) == v.t = "str" /\ \E p \in PRODUCTION_SOURCE_INDEX : p[1] = v.s

\* PRODUCTION_SOURCE_INDEX[energy_source]
SourceIndex(v) == (CHOOSE p \in PRODUCTION_SOURCE_INDEX : p[1] = v.s)[2]

\* [0.0] * n
Zeros(n) == [j \in 1..n |-> PyFloat(0, 0)]

\* the code point of a character of a date
Ord(c) == IF c \in Digits THEN 48 + DigitVal(c) ELSE 45

\* a < b for two strings, as Python compares str: by the first character that
\* differs, a proper prefix before the longer string
RECURSIVE StrLess(_, _)
StrLess(a, b) ==
    IF b = <<>> THEN FALSE
    ELSE IF a = <<>> THEN TRUE
    ELSE IF Head(a) = Head(b) THEN StrLess(Tail(a), Tail(b))
    ELSE Ord(Head(a)) < Ord(Head(b))

\* sorted(S) for a set of strings
RECURSIVE Sorted(_)
Sorted(S) ==
    IF S = {} THEN <<>>
    ELSE LET m == CHOOSE x \in S : \A y \in S \ {x} : StrLess(x, y)
         IN <<m>> \o Sorted(S \ {m})

\* csv.DictReader: the first line names the fields; a row with no cell is
\* skipped; a field the row is too short for is None; cells beyond the field
\* names are kept under the key None, which no importer reads
DictRow(header, r) ==
    [f \in {header[j] : j \in 1..Len(header)} |->
        LET j == CHOOSE m \in 1..Len(header) :
                     header[m] = f /\ \A n \in (m + 1)..Len(header) : header[n] # f
        IN IF j <= Len(r) THEN PyStr(r[j]) ELSE None]

DictReader(content) ==
    LET rows == SelectSeq(content.rows, LAMBDA r : r # <<>>)
    IN [j \in 1..Len(rows) |-> DictRow(content.header, rows[j])]

\* float(v) for a value of a DictReader row: [raised, error, v]
FloatOf(v) ==
    IF v.t # "str" THEN [raised |-> TRUE, error |-> "TypeError", v |-> None]
    ELSE LET p == ParseFloat(v.s)
         IN [raised |-> p.raised, error |-> IF p.raised THEN "ValueError" ELSE "", v |-> p.v]

\* daily_data[date][index] = value, daily_data a defaultdict of [0.0] * 6
SetDaily(daily_data, date, index, value) ==
    LET old == IF date \in DOMAIN daily_data THEN daily_data[date] ELSE Zeros(6)
    IN [d \in DOMAIN daily_data \cup {date} |->
           IF d = date THEN [old EXCEPT ![index + 1] = value] ELSE daily_data[d]]

NoDaily == [d \in {} |-> <<>>]

\* the body of the loop of import_production for one row.  KeyError and
\* ValueError are caught and the row is skipped; any other exception leaves
\* the function.
ProductionRow(st, r) ==
    IF st.raised THEN st
    ELSE IF ~({W("Datum"), W("Energietraeger"), W("Produktion_GWh")} \subseteq DOMAIN r)
    THEN st
    ELSE LET date == r[W("Datum")].s
             energy_source == r[W("Energietraeger")]
             production_gwh == FloatOf(r[W("Produktion_GWh")])
         IN IF production_gwh.raised
            THEN (IF production_gwh.error = "ValueError" THEN st
                  ELSE [st EXCEPT !.raised = TRUE, !.error = production_gwh.error])
            ELSE IF KnownSource(energy_source)
            THEN [st EXCEPT !.daily_data = SetDaily(@, date, SourceIndex(energy_source),
                                                    production_gwh.v),
                            !.processed_rows = @ + 1]
            ELSE st

RECURSIVE ProductionRows(_, _)
ProductionRows(rows, st) ==
    IF rows = <<>> THEN st ELSE ProductionRows(Tail(rows), ProductionRow(st, rows[1]))

\* import_production(csv_content) and parse_csv(csv_content):
\* [raised, error, result, processed_rows]
ImportProduction(content) ==
    LET st == ProductionRows(DictReader(content),
                             [raised |-> FALSE, error |-> "", daily_data |-> NoDaily,
                              processed_rows |-> 0])
        dates == Sorted(DOMAIN st.daily_data)
    IN [raised |-> st.raised, error |-> st.error,
        result |-> IF st.raised THEN <<>>
                   ELSE [j \in 1..Len(dates) |->
                            [date |-> dates[j], prod |-> st.daily_data[dates[j]]]],
        processed_rows |-> st.processed_rows]

\* for field, index in TRADE_FLOW_INDEX.items(): if field in row:
\* trade_flows[index] = float(row[field]), from the k-th field on
RECURSIVE TradeFlows(_, _, _)
TradeFlows(r, k, trade_flows) ==
    IF k > Len(TRADE_FLOW_INDEX) THEN [raised |-> FALSE, error |-> "", v |-> trade_flows]
    ELSE LET field == TRADE_FLOW_INDEX[k][1]
             index == TRADE_FLOW_INDEX[k][2]
         IN IF field \notin DOMAIN r THEN TradeFlows(r, k + 1, trade_flows)
            ELSE LET f == FloatOf(r[field])
                 IN IF f.raised THEN [raised |-> TRUE, error |-> f.error, v |-> trade_flows]
                    ELSE TradeFlows(r, k + 1, [trade_flows EXCEPT ![index + 1] = f.v])

\* the body of the loop of import_trade for one row
TradeRow(st, r) ==
    IF st.raised THEN st
    ELSE IF W("Datetime") \notin DOMAIN r THEN st
    ELSE LET datetime_str == r[W("Datetime")].s
             flows == TradeFlows(r, 1, Zeros(8))
         IN IF flows.raised
            THEN (IF flows.error = "ValueError" THEN st
                  ELSE [st EXCEPT !.raised = TRUE, !.error = flows.error])
            ELSE [st EXCEPT !.result = Append(@, [date |-> datetime_str, trade |-> flows.v]),
                            !.processed_rows = @ + 1]

RECURSIVE TradeRows(_, _)
TradeRows(rows, st) ==
    IF rows = <<>> THEN st ELSE TradeRows(Tail(rows), TradeRow(st, rows[1]))

\* import_trade(csv_content): [raised, error, result, processed_rows]
ImportTrade(content) ==
    LET st == TradeRows(DictReader(content),
                        [raised |-> FALSE, error |-> "", result |-> <<>>, processed_rows |-> 0])
    IN [raised |-> st.raised, error |-> st.error,
        result |-> IF st.raised THEN <<>> ELSE st.result,
        processed_rows |-> st.processed_rows]

\* rows of a time-series CSV below its header line
MaxSeriesRows == 3

\* two decimal digits
Pad2(n) == PadFrac(NatStr(n), 2)

\* a date as the files write it: YYYY-MM-DD
Date(y, m, d) == NatStr(y) \o <<"-">> \o Pad2(m) \o <<"-">> \o Pad2(d)

ProductionHeader == <<W("Datum"), W("Energietraeger"), W("Produktion_GWh")>>

\* the lines a production file may hold: a blank line, rows of known sources,
\* a source that is not known, a value that is no number, a row one cell
\* short, a second row for the same date and source
ProductionPool ==
    { <<>>,
      <<Date(2024, 1, 2), W("Wind"), <<"5", DOT, "0">>>>,
      <<Date(2024, 1, 10), W("Kernkraft"), <<"1", "0">>>>,
      <<Date(2024, 1, 2), W("Kernkraft"), <<"1", "0">>>>,
      <<Date(2023, 12, 31), W("Flusskraft"), <<"1">>>>,
      <<Date(2024, 1, 2), W("Biomasse"), <<"3">>>>,
      <<Date(2024, 1, 10), W("Wind"), W("n/a")>>,
      <<Date(2024, 1, 2), W("Wind")>>,
      <<Date(2024, 1, 2), W("Wind"), <<"7">>>> }

TradeHeader == <<W("Datetime")>> \o [j \in 1..Len(TRADE_FLOW_INDEX) |-> TRADE_FLOW_INDEX[j][1]]

\* a trade row with the same value for every flow
TradeLine(date, value) == <<date>> \o [j \in 1..Len(TRADE_FLOW_INDEX) |-> value]

\* the lines a trade file may hold
TradePool ==
    { <<>>,
      TradeLine(Date(2024, 1, 2), <<"1">>),
      TradeLine(Date(2024, 1, 10), <<"2">>),
      TradeLine(Date(2023, 12, 31), <<"3", DOT, "5">>),
      [TradeLine(Date(2024, 1, 2), <<"1">>) EXCEPT ![3] = W("n/a")],
      <<Date(2024, 1, 10), <<"1">>, <<"2">>>> }

\* the files an importer may be given: the full header or one with fewer
\* columns, and up to MaxSeriesRows lines
Contents(kind) ==
    LET headers == IF kind = "production"
                   THEN {ProductionHeader, SubSeq(ProductionHeader, 1, 2)}
                   ELSE {TradeHeader, SubSeq(TradeHeader, 1, 3)}
        pool == IF kind = "production" THEN ProductionPool ELSE TradePool
    IN {[header |-> h, rows |-> r] :
           h \in headers, r \in UNION {[1..n -> pool] : n \in 0..MaxSeriesRows}}

InitSeries ==
    /\ cache_file = NoFile
    /\ PipelineIdle
    /\ CellIdle
    /\ WriterIdle
    /\ series \in {"production", "trade"}
    /\ csv_content \in Contents(series)
    /\ series_out = [done |-> FALSE, raised |-> FALSE, error |-> "", result |-> <<>>,
                     processed_rows |-> 0]

\* production_data = import_production(csv_content)
CallImportProduction ==
    /\ series = "production"
    /\ ~series_out.done
    /\ \E p \in {ImportProduction(csv_content)} :
          series_out' = [done |-> TRUE, raised |-> p.raised, error |-> p.error,
                         result |-> p.result, processed_rows |-> p.processed_rows]
    /\ UNCHANGED <<csv_content, series, geo_vars, run_vars, cell_vars, writer_vars,
                   save_vars, persisted>>

\* trade_data = import_trade(csv_content)
CallImportTrade ==
    /\ series = "trade"
    /\ ~series_out.done
    /\ \E p \in {ImportTrade(csv_content)} :
          series_out' = [done |-> TRUE, raised |-> p.raised, error |-> p.error,
                         result |-> p.result, processed_rows |-> p.processed_rows]
    /\ UNCHANGED <<csv_content, series, geo_vars, run_vars, cell_vars, writer_vars,
                   save_vars, persisted>>

NextSeries == CallImportProduction \/ CallImportTrade

SpecSeries == InitSeries /\ [][NextSeries]_vars

\* ------------------------------------- save() step by step, and a crash

\* lines of the facilities file: the header and rows of addresses no run has seen
MaxAddresses == 102

\* the n-th row of the file: a full address, no coordinates
AddressRow(n) == DataRow(W("Main"), NatStr(n), W("Bern"), <<"7">>, <<>>, <<>>)

\* the service answers every request: a place for the odd rows, nothing for the even
AnswerFor(n) == IF n % 2 = 1 THEN Found(PyFloat(4625, 2), PyFloat(75, 1)) ELSE Empty

InitCrash ==
    /\ cache_file \in {NoFile, File(CacheLine(MainKey, <<"4", "7", ".", "5">>, <<"8", ".", "5">>))}
    /\ PipelineIdle
    /\ CellIdle
    /\ WriterIdle
    /\ SeriesIdle

\* one iteration of `for i, row in enumerate(csvreader)` over this file, up to
\* the call of self.save() in geocode when the lookup is the 100th since the last
ReadAddressRow ==
    /\ pc = "rows"
    /\ i < MaxAddresses
    /\ \E r \in {IF i = 0 THEN Header ELSE AddressRow(i)} :
        /\ row' = r
        /\ i' = i + 1
        /\ IF IsHeader(r)
           THEN /\ keys' = [set |-> TRUE, cols |-> r \o <<W("lat"), W("lon")>>]
                /\ UNCHANGED <<cache, num_requests, net_log, pc, facilities, warnings,
                               facilities_with_coords, geocoded_facilities, resume>>
           ELSE \E p \in {ProcessRow(r, i, keys.cols, cache, num_requests, cache_file,
                                     AnswerFor(i))} :
                   /\ cache' = p.cache
                   /\ num_requests' = p.num_requests
                   /\ net_log' = net_log \o p.log
                   /\ facilities' = facilities \o p.facility
                   /\ warnings' = IF p.raised THEN Append(warnings, i) ELSE warnings
                   /\ facilities_with_coords' = facilities_with_coords + p.coords
                   /\ geocoded_facilities' = geocoded_facilities + p.geocoded
                   /\ pc' = IF p.file # cache_file THEN "save_open" ELSE pc
                   /\ resume' = IF p.file # cache_file THEN "rows" ELSE resume
                   /\ UNCHANGED keys
    /\ UNCHANGED <<cache_file, error, runs, written, persisted, cell_vars, writer_vars,
                   series_vars>>

\* csvreader is exhausted: geocoder.save() is called
EndOfAddresses ==
    /\ pc = "rows"
    /\ i = MaxAddresses
    /\ pc' = "save_open"
    /\ resume' = "done"
    /\ UNCHANGED <<geo_vars, error, runs, i, row, keys, facilities, warnings,
                   facilities_with_coords, geocoded_facilities, written, persisted,
                   cell_vars, writer_vars, series_vars>>

\* save: open(self.cache_file, 'w') makes the file empty
OpenCacheFile ==
    /\ pc = "save_open"
    /\ cache_file' = File(<<>>)
    /\ written' = 0
    /\ pc' = "save_write"
    /\ UNCHANGED <<cache, num_requests, net_log, run_vars_but_pc, resume, persisted,
                   cell_vars, writer_vars, series_vars>>

\* save: f.write of the next entry.  The line goes to the buffer of f; it and
\* the lines before it may reach the file now or later.
WriteEntry ==
    /\ pc = "save_write"
    /\ written < Len(cache)
    /\ written' = written + 1
    /\ cache_file' \in {cache_file, File(SaveText(SubSeq(cache, 1, written + 1)))}
    /\ UNCHANGED <<cache, num_requests, net_log, run_vars, resume, persisted,
                   cell_vars, writer_vars, series_vars>>

\* save: the with block ends, the file is flushed and closed, save returns
CloseCacheFile ==
    /\ pc = "save_write"
    /\ written = Len(cache)
    /\ cache_file' = Save(cache)
    /\ persisted' = cache
    /\ pc' = resume
    /\ resume' = ""
    /\ UNCHANGED <<cache, num_requests, net_log, run_vars_but_pc, written,
                   cell_vars, writer_vars, series_vars>>

\* the process dies: the file stays as it is on disk
Crash ==
    /\ pc \in {"rows", "save_open", "save_write"}
    /\ pc' = "crashed"
    /\ UNCHANGED <<geo_vars, run_vars_but_pc, save_vars, persisted,
                   cell_vars, writer_vars, series_vars>>

NextCrash ==
    StartRun \/ ReadAddressRow \/ EndOfAddresses \/ OpenCacheFile \/ WriteEntry
        \/ CloseCacheFile \/ Crash

SpecCrash == InitCrash /\ [][NextCrash]_vars

\* ============================================================== claims

Requests == {j \in 1..Len(net_log) : net_log[j].e = "req"}

\* C1: within one load cycle every AddressKey causes at most one network
\* request: a second geocode call on a key that was already asked for is
\* answered from the cache.
C1_OneRequestPerKey ==
    \A a \in Requests, b \in Requests : net_log[a].k = net_log[b].k => a = b

\* the keys for which geocode stored "looked up, not found" in this run
NotFoundKeys == {net_log[j].k : j \in {m \in Requests : net_log[m].r = "empty"}}

\* C2: a (None, None) result stored by geocode and written by save() is, after
\* load() in a later run, in the cache under the same AddressKey, so geocode
\* returns (None, None) from the cache and asks the service nothing.
C2_NotFoundSurvivesReload ==
    pc = "done" =>
        \A k \in NotFoundKeys :
            LET l == Load(cache_file)
            IN ~l.raised /\ HasKey(l.cache, k) /\ Get(l.cache, k) = <<None, None>>

\* C3: save() followed by load() succeeds and gives back the in-memory cache,
\* key for key and value for value.
C3_SaveLoadRoundTrip ==
    pc = "done" =>
        LET l == Load(cache_file)
        IN ~l.raised /\ AsMap(l.cache) = AsMap(cache)

\* C4: a failed HTTP lookup ends the run: it is the last thing the run does on
\* the network, no further row is processed, nothing is stored for its key
\* and no record is produced for its row.
C4_FailureIsFatal ==
    \A j \in Requests :
        net_log[j].r = "fail" =>
            /\ pc = "aborted"
            /\ j = Len(net_log)
            /\ i = net_log[j].row
            /\ ~HasKey(cache, net_log[j].k)

\* C5: every network request is followed by the rate-limit sleep before the
\* next request is sent, and the sleep is taken only after a request.
C5_SleepAfterEveryRequest ==
    /\ \A j \in Requests : j < Len(net_log) => net_log[j + 1].e = "sleep"
    /\ \A j \in 1..Len(net_log) :
          net_log[j].e = "sleep" => j > 1 /\ net_log[j - 1].e = "req"

\* a record's field is null: absent from the record or None
IsNull(rec, f) == f \notin DOMAIN rec \/ rec[f] = None

\* C7: in every output record lat and lon are both null or both non-null.
C7_LatLonBothOrNeither ==
    \A j \in 1..Len(facilities) :
        IsNull(facilities[j], W("lat")) <=> IsNull(facilities[j], W("lon"))

\* C8: no exception raised while a row is processed ends the run: the only
\* way a run aborts is the cache failing to load, before any row is read.
C8_NoRowAbortsTheRun ==
    pc = "aborted" => error = "ValueError"

\* the row last read is a data row whose cells translated and whose last two
\* values are not a projected coordinate pair
LastRowNeedsAddress ==
    /\ pc \in {"rows", "done"}
    /\ i > 0
    /\ row # <<>>
    /\ ~IsHeader(row)
    /\ ~TranslateRow(row).raised
    /\ ~HasProjected(TranslateRow(row).values)

LastRowFields == ZipDict(SubSeq(keys.cols, 1, Len(keys.cols) - 2), TranslateRow(row).values)

\* all three address fields of the row last read are present and non-empty
LastRowHasAddress ==
    \A j \in 1..3 :
        /\ AddressFields[j] \in DOMAIN LastRowFields
        /\ ToStr(LastRowFields[AddressFields[j]]) # <<>>

\* C9: a row without projected coordinates is geocoded exactly when its three
\* address fields are all present and non-empty; otherwise it is still
\* emitted, with lat and lon null, and no request is made for it.
C9_GeocodeIffFullAddress ==
    LastRowNeedsAddress =>
        /\ (AddressTest(AddressParts(LastRowFields)) = "geocode") <=> LastRowHasAddress
        /\ ~LastRowHasAddress =>
              /\ \A j \in 1..Len(warnings) : warnings[j] # i - 1
              /\ facilities # <<>>
              /\ IsNull(facilities[Len(facilities)], W("lat"))
              /\ IsNull(facilities[Len(facilities)], W("lon"))
              /\ \A j \in Requests : net_log[j].row # i - 1

\* the steps between the creation of the temp file and the rename
BeforeRename == {"close", "write", "chmod"}

\* the call has not reached the rename, or failed before reaching it
NotYetRenamed ==
    \/ wpc \in {"try", "created", "closed", "written", "chmodded"}
    \/ wpc \in {"except", "raised"} /\ failed_at \in BeforeRename \cup {"mkstemp"}

\* C6: when a writer fails after the temp file was created and before the
\* rename, then once the failure has propagated the destination is what it
\* was before the call (or still absent) and the temp file is gone; and until
\* the rename the destination is never touched.
C6_FailedWriteLeavesDestination ==
    /\ (wpc = "raised" /\ failed_at \in BeforeRename) => (dest = dest0 /\ temp = Absent)
    /\ NotYetRenamed => dest = dest0

\* a write failed half way over an earlier, complete output, and the failure
\* has propagated
C6_Witness ==
    /\ wpc = "raised"
    /\ failed_at = "write"
    /\ dest0.content \in Datasets
    /\ dest = dest0
    /\ temp = Absent

\* the cell consists of digits and at most one decimal point
LooksNumeric(value) == PyIsDigit(PyRemove(value, DOT)) /\ CountOf(value, DOT) <= 1

\* the translation as the claim describes it
ClaimedCell(value) ==
    IF InTranslations(value) THEN PyStr(Translated(value))
    ELSE IF LooksNumeric(value)
    THEN (IF PyContains(value, DOT) THEN ParseFloat(value).v ELSE PyInt(DigitsVal(value)))
    ELSE PyStr(value)

\* C10: the per-cell translation never raises and yields the catalogue label
\* of a known code, else a number for digits with at most one decimal point,
\* else the raw string; digits with two or more points pass through as text.
C10_CellTranslationNeverRaises ==
    cell_out.done => (~cell_out.raised /\ cell_out.v = ClaimedCell(cell))

\* the lookups of this run that returned: their result was stored by geocode
Learned == {j \in Requests : net_log[j].r # "fail"}

\* C11: when import_facilities returns, whatever the rows did, save() has run
\* after the last row: the cache file exists and holds one line for each
\* entry of the in-memory cache and nothing else, and every result learned in
\* the run is among them.
C11_SavedAtReturn ==
    pc = "done" =>
        /\ cache_file.exists
        /\ cache_file.text = SaveText(cache)
        /\ \A j \in Learned : HasKey(cache, net_log[j].k)

\* a run returned in which a row was dropped, a lookup failed, a result was
\* learned and no record has coordinates
C11_Witness ==
    /\ pc = "done"
    /\ warnings # <<>>
    /\ Learned # {}
    /\ \E j \in Requests : net_log[j].r = "fail"
    /\ facilities_with_coords = 0
    /\ cache_file = File(SaveText(cache))

\* the lines of the cache file as they are on disk, without their newline
RawLines(f) == IF f.exists THEN PySplit(f.text, NL) ELSE <<>>

\* a line that is not blank and does not consist of three tab-separated fields
Malformed(line) == PyStrip(line) # <<>> /\ Len(PySplit(line, TAB)) # 3

HasMalformedLine(f) == \E j \in 1..Len(RawLines(f)) : Malformed(RawLines(f)[j])

\* C12: a run that finds a malformed line in the cache file (non-blank, not
\* exactly three tab-separated fields) is stopped by load() raising
\* ValueError, before any row is read.
C12_MalformedLineStopsRun ==
    [][(runs' = runs + 1 /\ HasMalformedLine(cache_file))
          => (pc' = "aborted" /\ error' = "ValueError" /\ i' = 0 /\ facilities' = <<>>)]_vars

Whitelist == {REQUIRED_FIELDS[j] : j \in 1..Len(REQUIRED_FIELDS)}

\* the row last read is a data row that gave a record, the last of facilities
LastRowGaveRecord ==
    /\ pc \in {"rows", "done"}
    /\ i > 0
    /\ row # <<>>
    /\ ~IsHeader(row)
    /\ keys.set
    /\ \A j \in 1..Len(warnings) : warnings[j] # i - 1

\* the columns of the header (and lat, lon) that have a value in the row last
\* read: its cells, then the two coordinates
PairedColumns == 1..Min(Len(keys.cols), Len(row) + 2)

\* C13: every output record has only whitelisted keys; a key is in the record
\* only if it is a column of the header (or lat, lon) that is paired with a
\* value of the row, and the record carries that value: a whitelisted field
\* the row does not have is left out, not defaulted.
C13_WhitelistProjection ==
    /\ \A j \in 1..Len(facilities) :
          /\ DOMAIN facilities[j] \subseteq Whitelist
          /\ DOMAIN facilities[j] \subseteq {keys.cols[m] : m \in 1..Len(keys.cols)}
    /\ LastRowGaveRecord =>
          /\ facilities # <<>>
          /\ \A f \in DOMAIN facilities[Len(facilities)] :
                \E m \in PairedColumns :
                    /\ keys.cols[m] = f
                    /\ m <= Len(row) =>
                          facilities[Len(facilities)][f] = TranslateCell(row[m]).v

\* a record of a row one cell short: TotalPower and lat are in it, lon (the
\* column left without a value) and Canton (not a column of the file) are not
C13_Witness ==
    /\ LastRowGaveRecord
    /\ Len(row) = Len(keys.cols) - 3
    /\ facilities # <<>>
    /\ LET rec == facilities[Len(facilities)]
       IN /\ W("TotalPower") \in DOMAIN rec
          /\ rec[W("TotalPower")] = PyInt(7)
          /\ W("lat") \in DOMAIN rec
          /\ W("lon") \notin DOMAIN rec
          /\ W("Canton") \notin DOMAIN rec

\* the rows of the production file as the importer reads them
ProductionInput == DictReader(csv_content)

\* the rows for a date and an energy source
RowsFor(date, source) ==
    {j \in 1..Len(ProductionInput) :
        /\ ProductionInput[j][W("Datum")] = PyStr(date)
        /\ ProductionInput[j][W("Energietraeger")] = PyStr(source)}

\* the dates with at least one row of a known energy source
KnownDates ==
    {ProductionInput[j][W("Datum")].s :
        j \in {m \in 1..Len(ProductionInput) :
                  KnownSource(ProductionInput[m][W("Energietraeger")])}}

\* a line of the file whose energy source is not a known one
UnknownSource(r) == Len(r) >= 2 /\ ~KnownSource(PyStr(r[2]))

\* the file without the lines of unknown energy sources
WithoutUnknown ==
    [csv_content EXCEPT !.rows = SelectSeq(@, LAMBDA r : ~UnknownSource(r))]

\* C14: for a production file with the three columns, the aggregate has one
\* record per date that has a row of a known energy source; at the index of
\* each source it carries the value of a row for that date and source, and
\* 0.0 where there is none; the rows of unknown sources change neither the
\* records nor the count of processed rows.
C14_DailyAggregate ==
    (series = "production" /\ series_out.done /\ csv_content.header = ProductionHeader) =>
        /\ ~series_out.raised
        /\ {series_out.result[j].date : j \in 1..Len(series_out.result)} = KnownDates
        /\ Len(series_out.result) = Cardinality(KnownDates)
        /\ \A j \in 1..Len(series_out.result) : \A p \in PRODUCTION_SOURCE_INDEX :
              LET rows == RowsFor(series_out.result[j].date, p[1])
                  value == series_out.result[j].prod[p[2] + 1]
              IN IF rows = {} THEN value = PyFloat(0, 0)
                 ELSE \E m \in rows :
                         /\ ~FloatOf(ProductionInput[m][W("Produktion_GWh")]).raised
                         /\ value = FloatOf(ProductionInput[m][W("Produktion_GWh")]).v
        /\ series_out.result = ImportProduction(WithoutUnknown).result
        /\ series_out.processed_rows = ImportProduction(WithoutUnknown).processed_rows

\* the output is in ascending order of date
Ascending(result) ==
    \A j \in 1..(Len(result) - 1) : ~StrLess(result[j + 1].date, result[j].date)

\* C15: the production list and the trade list are sorted by date ascending
\* whatever the order of the input rows, and every record carries an array of
\* 6 (production) or 8 (trade) values.
C15_SortedByDate ==
    (series_out.done /\ ~series_out.raised /\ series # "") =>
        /\ Ascending(series_out.result)
        /\ \A j \in 1..Len(series_out.result) :
              IF series = "production"
              THEN Len(series_out.result[j].prod) = 6
              ELSE Len(series_out.result[j].trade) = 8

\* the lines of the cache file
FileLines == {RawLines(cache_file)[j] : j \in 1..Len(RawLines(cache_file))}

\* the lines of the entries that were in the file at load or after the last
\* save() that returned
PersistedLines ==
    {PyStrip(SaveLine(persisted[j])) : j \in 1..Len(persisted)}

\* C16: save() runs after every 100th lookup, so between saves at most 100
\* entries are in memory only; and at every point of a run, a crash in the
\* middle of a save() included, the cache file holds every entry that was in
\* it at load or after an earlier save().
C16_CrashLosesOnlyRecentLookups ==
    /\ pc = "rows" => Len(cache) - Len(persisted) = num_requests % SaveEvery
    /\ Len(cache) - Len(persisted) <= SaveEvery
    /\ persisted = SubSeq(cache, 1, Len(persisted))
    /\ pc \in {"rows", "save_open", "save_write", "crashed", "done"} =>
          PersistedLines \subseteq FileLines

====
